---- MODULE Spec2Model ----
(***************************************************************************)
(* A model of the two scripts of src/native:                               *)
(*   test-host.py     the native-messaging test host: it writes one        *)
(*                    HOST_READY frame, then reads length-prefixed JSON    *)
(*                    frames from stdin and acknowledges each one;         *)
(*   host-wrapper.py  the launcher that spawns the real host and waits.    *)
(*                                                                         *)
(* Bytes are numbers 0..255 and a byte string is a sequence of them.  A    *)
(* Python str is a sequence of code points.  A Python value is a record    *)
(* tagged by its type:                                                     *)
(*   [t |-> "null"]   [t |-> "bool", b |-> ..]   [t |-> "int", i |-> ..]   *)
(*   [t |-> "float", f |-> <text of the literal>]                          *)
(*   [t |-> "str", s |-> <code points>]   [t |-> "list", l |-> <values>]   *)
(*   [t |-> "dict", d |-> <sequence of [k |-> <code points>, v |-> value]> *)
(*                        in insertion order, keys distinct]               *)
(***************************************************************************)
EXTENDS Integers, Sequences, FiniteSets, TLC

(***************************************************************************)
(* Characters.                                                             *)
(***************************************************************************)
AsciiChars ==
  << " ", "!", "\"", "#", "$", "%", "&", "'", "(", ")", "*", "+", ",", "-", ".", "/",
     "0", "1", "2", "3", "4", "5", "6", "7", "8", "9", ":", ";", "<", "=", ">", "?",
     "@", "A", "B", "C", "D", "E", "F", "G", "H", "I", "J", "K", "L", "M", "N", "O",
     "P", "Q", "R", "S", "T", "U", "V", "W", "X", "Y", "Z", "[", "\\", "]", "^", "_",
     "GRAVE", "a", "b", "c", "d", "e", "f", "g", "h", "i", "j", "k", "l", "m", "n", "o",
     "p", "q", "r", "s", "t", "u", "v", "w", "x", "y", "z", "{", "|", "}", "~" >>

\* Ord[c]: the code point of the printable ASCII character c (ord(c) in Python);
\* the table runs from 32 to 126 and names the grave accent (96) instead of
\* spelling it.
Ord ==
  [c \in {AsciiChars[i] : i \in 1..Len(AsciiChars)} |->
     31 + (CHOOSE i \in 1..Len(AsciiChars) : AsciiChars[i] = c)]

\* The str (equally, the ASCII byte string) spelled by a sequence of characters.
Chars(cs) == [i \in 1..Len(cs) |-> Ord[cs[i]]]

Drop(s, n) == SubSeq(s, n + 1, Len(s))
Take(s, n) == SubSeq(s, 1, n)

(***************************************************************************)
(* struct.pack('I', n) and struct.unpack('I', b): a 4-byte unsigned        *)
(* integer in native byte order (little-endian on the hosts this runs on). *)
(* Python integers are unbounded, so the number handed to pack is given by *)
(* its base-256 digits, least significant first; pack raises struct.error  *)
(* when the number does not fit in 4 bytes.                                *)
(***************************************************************************)
RECURSIVE Base256(_)
Base256(n) == IF n < 256 THEN <<n>> ELSE <<n % 256>> \o Base256(n \div 256)

struct_pack_I_big_endian(digits) ==
  IF \E i \in 1..Len(digits) : i > 4 /\ digits[i] # 0
  THEN [ok |-> FALSE, exc |-> "struct.error"]
  ELSE [ok |-> TRUE, bytes |-> [i \in 1..4 |-> IF 5 - i <= Len(digits) THEN digits[5 - i] ELSE 0]]

struct_pack_I_wraps(digits) ==
  [ok |-> TRUE, bytes |-> [i \in 1..4 |-> IF i <= Len(digits) THEN digits[i] ELSE 0]]

struct_pack_I(digits) ==
  IF \E i \in 1..Len(digits) : i > 4 /\ digits[i] # 0
  THEN [ok |-> FALSE, exc |-> "struct.error"]
  ELSE [ok |-> TRUE, bytes |-> [i \in 1..4 |-> IF i <= Len(digits) THEN digits[i] ELSE 0]]

struct_unpack_I(b) ==
  IF Len(b) # 4
  THEN [ok |-> FALSE, exc |-> "struct.error"]
  ELSE [ok |-> TRUE, n |-> b[1] + 256 * b[2] + 65536 * b[3] + 16777216 * b[4]]

(***************************************************************************)
(* str.encode('utf-8') and bytes.decode('utf-8'), both strict.             *)
(***************************************************************************)
IsSurrogate(c) == c >= 55296 /\ c <= 57343

utf8_char(c) ==
  IF c < 128 THEN <<c>>
  ELSE IF c < 2048 THEN <<192 + (c \div 64), 128 + (c % 64)>>
  ELSE IF c < 65536 THEN <<224 + (c \div 4096), 128 + ((c \div 64) % 64), 128 + (c % 64)>>
  ELSE <<240 + (c \div 262144), 128 + ((c \div 4096) % 64),
         128 + ((c \div 64) % 64), 128 + (c % 64)>>

RECURSIVE utf8_concat(_, _)
utf8_concat(s, i) ==
  IF i > Len(s) THEN <<>> ELSE utf8_char(s[i]) \o utf8_concat(s, i + 1)

utf8_encode(s) ==
  IF \E i \in 1..Len(s) : IsSurrogate(s[i])
  THEN [ok |-> FALSE, exc |-> "UnicodeEncodeError"]
  ELSE [ok |-> TRUE, bytes |-> utf8_concat(s, 1)]

IsCont(b, i) == i <= Len(b) /\ b[i] >= 128 /\ b[i] <= 191

\* The code point that starts at byte i and the number of bytes it takes
\* (n = 0: no well-formed UTF-8 sequence starts there).
utf8_next(b, i) ==
  LET b1 == b[i]
      b2 == b[i + 1]
      b3 == b[i + 2]
      b4 == b[i + 3]
  IN  IF b1 < 128 THEN [n |-> 1, c |-> b1]
      ELSE IF b1 >= 194 /\ b1 <= 223 /\ IsCont(b, i + 1)
        THEN [n |-> 2, c |-> (b1 - 192) * 64 + (b2 - 128)]
      ELSE IF b1 >= 224 /\ b1 <= 239 /\ IsCont(b, i + 1) /\ IsCont(b, i + 2)
              /\ (b1 = 224 => b2 >= 160) /\ (b1 = 237 => b2 <= 159)
        THEN [n |-> 3, c |-> (b1 - 224) * 4096 + (b2 - 128) * 64 + (b3 - 128)]
      ELSE IF b1 >= 240 /\ b1 <= 244
              /\ IsCont(b, i + 1) /\ IsCont(b, i + 2) /\ IsCont(b, i + 3)
              /\ (b1 = 240 => b2 >= 144) /\ (b1 = 244 => b2 <= 143)
        THEN [n |-> 4, c |-> (b1 - 240) * 262144 + (b2 - 128) * 4096
                             + (b3 - 128) * 64 + (b4 - 128)]
      ELSE [n |-> 0, c |-> 0]

RECURSIVE utf8_decode_from(_, _, _)
utf8_decode_from(b, i, acc) ==
  IF i > Len(b) THEN [ok |-> TRUE, s |-> acc]
  ELSE CHOOSE res \in {IF r.n = 0 THEN [ok |-> FALSE, exc |-> "UnicodeDecodeError"]
                       ELSE utf8_decode_from(b, i + r.n, Append(acc, r.c)) :
                         r \in {utf8_next(b, i)}} : TRUE

utf8_decode(b) == utf8_decode_from(b, 1, <<>>)

(***************************************************************************)
(* json.dumps(obj) with the default options: separators ", " and ": ",     *)
(* ensure_ascii (every character outside " ".."~" is escaped), allow_nan.  *)
(* A float is written by the text of its literal: the only floats of the   *)
(* model are the constants NaN, Infinity and -Infinity, which dumps writes *)
(* by those words, and literals already in repr form.                      *)
(***************************************************************************)
HexDigit(d) == IF d < 10 THEN Ord["0"] + d ELSE Ord["a"] + (d - 10)

Hex4(n) ==
  <<HexDigit((n \div 4096) % 16), HexDigit((n \div 256) % 16),
    HexDigit((n \div 16) % 16), HexDigit(n % 16)>>

EscapeU(c) == <<Ord["\\"], Ord["u"]>> \o Hex4(c)

escape_char_keeps_quote(c) ==
  IF c = Ord["\\"] THEN <<Ord["\\"], Ord["\\"]>>
  ELSE IF c = 10 THEN <<Ord["\\"], Ord["n"]>>
  ELSE IF c >= 32 /\ c <= 126 THEN <<c>>
  ELSE IF c < 65536 THEN EscapeU(c)
  ELSE EscapeU(55296 + (((c - 65536) \div 1024) % 1024))
         \o EscapeU(56320 + ((c - 65536) % 1024))

\* encode_basestring_ascii's replacement of one character.
escape_char(c) ==
  IF c = Ord["\""] THEN <<Ord["\\"], Ord["\""]>>
  ELSE IF c = Ord["\\"] THEN <<Ord["\\"], Ord["\\"]>>
  ELSE IF c = 10 THEN <<Ord["\\"], Ord["n"]>>
  ELSE IF c = 13 THEN <<Ord["\\"], Ord["r"]>>
  ELSE IF c = 9 THEN <<Ord["\\"], Ord["t"]>>
  ELSE IF c = 12 THEN <<Ord["\\"], Ord["f"]>>
  ELSE IF c = 8 THEN <<Ord["\\"], Ord["b"]>>
  ELSE IF c >= 32 /\ c <= 126 THEN <<c>>
  ELSE IF c < 65536 THEN EscapeU(c)
  ELSE EscapeU(55296 + (((c - 65536) \div 1024) % 1024))
         \o EscapeU(56320 + ((c - 65536) % 1024))

RECURSIVE escape_from(_, _)
escape_from(s, i) ==
  IF i > Len(s) THEN <<>> ELSE escape_char(s[i]) \o escape_from(s, i + 1)

encode_basestring_ascii(s) == <<Ord["\""]>> \o escape_from(s, 1) \o <<Ord["\""]>>

RECURSIVE Decimal(_)
Decimal(n) ==
  IF n < 10 THEN <<Ord["0"] + n>> ELSE Decimal(n \div 10) \o <<Ord["0"] + (n % 10)>>

int_repr(i) == IF i < 0 THEN <<Ord["-"]>> \o Decimal(0 - i) ELSE Decimal(i)

RECURSIVE json_dumps(_)
RECURSIVE dumps_items(_, _)
RECURSIVE dumps_pairs(_, _)

dumps_items(l, i) ==
  IF i > Len(l) THEN <<>>
  ELSE (IF i > 1 THEN Chars(<<",", " ">>) ELSE <<>>)
         \o json_dumps(l[i]) \o dumps_items(l, i + 1)

dumps_pairs(d, i) ==
  IF i > Len(d) THEN <<>>
  ELSE (IF i > 1 THEN Chars(<<",", " ">>) ELSE <<>>)
         \o encode_basestring_ascii(d[i].k) \o Chars(<<":", " ">>)
         \o json_dumps(d[i].v) \o dumps_pairs(d, i + 1)

json_dumps(o) ==
  CASE o.t = "null"  -> Chars(<<"n", "u", "l", "l">>)
    [] o.t = "bool"  -> IF o.b THEN Chars(<<"t", "r", "u", "e">>)
                               ELSE Chars(<<"f", "a", "l", "s", "e">>)
    [] o.t = "int"   -> int_repr(o.i)
    [] o.t = "float" -> o.f
    [] o.t = "str"   -> encode_basestring_ascii(o.s)
    [] o.t = "list"  -> Chars(<<"[">>) \o dumps_items(o.l, 1) \o Chars(<<"]">>)
    [] o.t = "dict"  -> Chars(<<"{">>) \o dumps_pairs(o.d, 1) \o Chars(<<"}">>)

\* Constructors of Python values.
PyNone == [t |-> "null"]
PyBool(b) == [t |-> "bool", b |-> b]
PyInt(i) == [t |-> "int", i |-> i]
PyFloat(f) == [t |-> "float", f |-> f]
PyStr(s) == [t |-> "str", s |-> s]
PyList(l) == [t |-> "list", l |-> l]
PyDict(d) == [t |-> "dict", d |-> d]

(***************************************************************************)
(* json.loads(s) with the default options (strict strings, the constants   *)
(* NaN, Infinity and -Infinity accepted).  Every scanning operator takes   *)
(* the str s and a position i, and returns [ok |-> TRUE, v |-> the value,  *)
(* i |-> the position after it] or [ok |-> FALSE] (JSONDecodeError).       *)
(* ext tells whether the three constants, which are not JSON, are          *)
(* accepted: json.loads accepts them.  A result that the rest of the scan   *)
(* reads several times is named by CHOOSE res \in {... : r \in {result}},   *)
(* the one element of a one-element set.                                   *)
(***************************************************************************)
Fail == [ok |-> FALSE]

IsWs(c) == c = 32 \/ c = 9 \/ c = 10 \/ c = 13

IsDigit(c) == c >= Ord["0"] /\ c <= Ord["9"]

At(s, i) == IF i >= 1 /\ i <= Len(s) THEN s[i] ELSE 0 - 1

\* s[i : i + len(w)] == w
StartsWith(s, i, w) ==
  i + Len(w) - 1 <= Len(s) /\ \A j \in 1..Len(w) : s[i + j - 1] = w[j]

RECURSIVE skip_ws(_, _)
skip_ws(s, i) == IF i <= Len(s) /\ IsWs(s[i]) THEN skip_ws(s, i + 1) ELSE i

RECURSIVE skip_digits(_, _)
skip_digits(s, i) == IF IsDigit(At(s, i)) THEN skip_digits(s, i + 1) ELSE i

RECURSIVE digits_value(_, _, _, _)
digits_value(s, i, j, acc) ==
  IF i >= j THEN acc ELSE digits_value(s, i + 1, j, 10 * acc + (s[i] - Ord["0"]))

\* The number that starts at i: -?(0|[1-9][0-9]*)(\.[0-9]+)?([eE][-+]?[0-9]+)?
\* i0 is the first digit's place, i1 the end of the integer part, i2 the end of
\* the fraction, i3 the end of the exponent.
int_end(s, i0) == IF At(s, i0) = Ord["0"] THEN i0 + 1 ELSE skip_digits(s, i0)

frac_end(s, i1) ==
  IF At(s, i1) = Ord["."] /\ IsDigit(At(s, i1 + 1)) THEN skip_digits(s, i1 + 1) ELSE i1

exp_digits(s, i2, e0) ==
  IF (At(s, i2) = Ord["e"] \/ At(s, i2) = Ord["E"]) /\ IsDigit(At(s, e0))
  THEN skip_digits(s, e0) ELSE i2

exp_end(s, i2) ==
  exp_digits(s, i2, IF At(s, i2 + 1) = Ord["+"] \/ At(s, i2 + 1) = Ord["-"]
                    THEN i2 + 2 ELSE i2 + 1)

number_value(s, i, i0, i1, i3) ==
  IF i1 = i0 THEN Fail
  ELSE IF i3 = i1
    THEN [ok |-> TRUE, i |-> i1,
          v |-> [t |-> "int",
                 i |-> IF i0 = i THEN digits_value(s, i0, i1, 0)
                                 ELSE 0 - digits_value(s, i0, i1, 0)]]
  ELSE [ok |-> TRUE, i |-> i3, v |-> [t |-> "float", f |-> SubSeq(s, i, i3 - 1)]]

number_tail(s, i, i0, i1) == number_value(s, i, i0, i1, exp_end(s, frac_end(s, i1)))

number_from(s, i, i0) == number_tail(s, i, i0, int_end(s, i0))

match_number(s, i) == number_from(s, i, IF At(s, i) = Ord["-"] THEN i + 1 ELSE i)

HexValue(c) ==
  IF IsDigit(c) THEN c - Ord["0"]
  ELSE IF c >= Ord["a"] /\ c <= Ord["f"] THEN c - Ord["a"] + 10
  ELSE IF c >= Ord["A"] /\ c <= Ord["F"] THEN c - Ord["A"] + 10
  ELSE 0 - 1

\* The four hex digits at i..i+3, or -1.
decode_uXXXX(s, i) ==
  IF \E j \in 0..3 : HexValue(At(s, i + j)) < 0 THEN 0 - 1
  ELSE 4096 * HexValue(s[i]) + 256 * HexValue(s[i + 1])
         + 16 * HexValue(s[i + 2]) + HexValue(s[i + 3])

\* The character a one-letter escape stands for, or -1.
Backslash(c) ==
  IF c = Ord["\""] \/ c = Ord["\\"] \/ c = Ord["/"] THEN c
  ELSE IF c = Ord["b"] THEN 8
  ELSE IF c = Ord["f"] THEN 12
  ELSE IF c = Ord["n"] THEN 10
  ELSE IF c = Ord["r"] THEN 13
  ELSE IF c = Ord["t"] THEN 9
  ELSE 0 - 1

\* scanstring: i is the position after the opening quote.
RECURSIVE scanstring(_, _, _)

\* The escape \uXXXX at i, uni its value; uni2 is the value of the \uXXXX that
\* follows it, looked at only when uni is a high surrogate and one follows.
scan_unicode(s, i, acc, uni, paired, uni2) ==
  IF uni < 0 THEN Fail
  ELSE IF ~paired THEN scanstring(s, i + 6, Append(acc, uni))
  ELSE IF uni2 < 0 THEN Fail
  ELSE IF uni2 >= 56320 /\ uni2 <= 57343
    THEN scanstring(s, i + 12, Append(acc, 65536 + (uni - 55296) * 1024 + (uni2 - 56320)))
  ELSE scanstring(s, i + 6, Append(acc, uni))

IsHighSurrogate(c) == c >= 55296 /\ c <= 56319

scan_escape(s, i, acc, esc) ==
  IF esc < 0 THEN Fail ELSE scanstring(s, i + 2, Append(acc, esc))

scanstring(s, i, acc) ==
  IF i > Len(s) THEN Fail
  ELSE IF s[i] = Ord["\""] THEN [ok |-> TRUE, v |-> acc, i |-> i + 1]
  ELSE IF s[i] < 32 THEN Fail
  ELSE IF s[i] # Ord["\\"] THEN scanstring(s, i + 1, Append(acc, s[i]))
  ELSE IF At(s, i + 1) # Ord["u"] THEN scan_escape(s, i, acc, Backslash(At(s, i + 1)))
  ELSE scan_unicode(s, i, acc, decode_uXXXX(s, i + 2),
                    IsHighSurrogate(decode_uXXXX(s, i + 2))
                      /\ StartsWith(s, i + 6, <<Ord["\\"], Ord["u"]>>),
                    decode_uXXXX(s, i + 8))

\* dict[k] = v: a key already present keeps its place and takes the new value.
dict_set(d, k, v) ==
  IF \E j \in 1..Len(d) : d[j].k = k
  THEN [j \in 1..Len(d) |-> IF d[j].k = k THEN [k |-> k, v |-> v] ELSE d[j]]
  ELSE Append(d, [k |-> k, v |-> v])

RECURSIVE scan_once(_, _, _)
RECURSIVE JSONObject(_, _, _, _)
RECURSIVE JSONArray(_, _, _, _)

\* After a pair: e is at "}" or at the "," before the next key.
object_next(s, d, e, ext) ==
  IF At(s, e) = Ord["}"] THEN [ok |-> TRUE, i |-> e + 1, v |-> [t |-> "dict", d |-> d]]
  ELSE IF At(s, e) # Ord[","] THEN Fail
  ELSE JSONObject(s, skip_ws(s, e + 1), d, ext)

object_value(s, k, val, acc, ext) ==
  IF ~val.ok THEN Fail
  ELSE CHOOSE res \in {object_next(s, d, skip_ws(s, val.i), ext) :
                         d \in {dict_set(acc, k, val.v)}} : TRUE

object_colon(s, k, c, acc, ext) ==
  IF At(s, c) # Ord[":"] THEN Fail
  ELSE CHOOSE res \in {object_value(s, k, val, acc, ext) :
                         val \in {scan_once(s, skip_ws(s, c + 1), ext)}} : TRUE

object_key(s, key, acc, ext) ==
  IF ~key.ok THEN Fail ELSE object_colon(s, key.v, skip_ws(s, key.i), acc, ext)

\* i is at the quote that opens the next key.
JSONObject(s, i, acc, ext) ==
  IF At(s, i) # Ord["\""] THEN Fail
  ELSE CHOOSE res \in {object_key(s, key, acc, ext) :
                         key \in {scanstring(s, i + 1, <<>>)}} : TRUE

\* After an item: e is at "]" or at the "," before the next item.
array_next(s, l, e, ext) ==
  IF At(s, e) = Ord["]"] THEN [ok |-> TRUE, i |-> e + 1, v |-> [t |-> "list", l |-> l]]
  ELSE IF At(s, e) # Ord[","] THEN Fail
  ELSE JSONArray(s, skip_ws(s, e + 1), l, ext)

array_value(s, val, acc, ext) ==
  IF ~val.ok THEN Fail
  ELSE CHOOSE res \in {array_next(s, l, skip_ws(s, val.i), ext) :
                         l \in {Append(acc, val.v)}} : TRUE

\* i is at the start of the next item.
JSONArray(s, i, acc, ext) ==
  CHOOSE res \in {array_value(s, val, acc, ext) : val \in {scan_once(s, i, ext)}} : TRUE

scan_string(str) ==
  IF str.ok THEN [ok |-> TRUE, i |-> str.i, v |-> [t |-> "str", s |-> str.v]] ELSE Fail

\* open is the place of the first character after "{" and whitespace.
scan_object(s, open, ext) ==
  IF At(s, open) = Ord["}"]
  THEN [ok |-> TRUE, i |-> open + 1, v |-> [t |-> "dict", d |-> <<>>]]
  ELSE JSONObject(s, open, <<>>, ext)

scan_array(s, open, ext) ==
  IF At(s, open) = Ord["]"]
  THEN [ok |-> TRUE, i |-> open + 1, v |-> [t |-> "list", l |-> <<>>]]
  ELSE JSONArray(s, open, <<>>, ext)

\* A number, else one of the constants json.loads adds to JSON.
scan_number(s, i, ext, num) ==
  IF num.ok THEN num
  ELSE IF ext /\ StartsWith(s, i, Chars(<<"N", "a", "N">>))
    THEN [ok |-> TRUE, i |-> i + 3, v |-> [t |-> "float", f |-> SubSeq(s, i, i + 2)]]
  ELSE IF ext /\ StartsWith(s, i, Chars(<<"I", "n", "f", "i", "n", "i", "t", "y">>))
    THEN [ok |-> TRUE, i |-> i + 8, v |-> [t |-> "float", f |-> SubSeq(s, i, i + 7)]]
  ELSE IF ext /\ StartsWith(s, i, Chars(<<"-", "I", "n", "f", "i", "n", "i", "t", "y">>))
    THEN [ok |-> TRUE, i |-> i + 9, v |-> [t |-> "float", f |-> SubSeq(s, i, i + 8)]]
  ELSE Fail

scan_once(s, i, ext) ==
  IF At(s, i) = Ord["\""] THEN scan_string(scanstring(s, i + 1, <<>>))
  ELSE IF At(s, i) = Ord["{"] THEN scan_object(s, skip_ws(s, i + 1), ext)
  ELSE IF At(s, i) = Ord["["] THEN scan_array(s, skip_ws(s, i + 1), ext)
  ELSE IF StartsWith(s, i, Chars(<<"n", "u", "l", "l">>))
    THEN [ok |-> TRUE, i |-> i + 4, v |-> [t |-> "null"]]
  ELSE IF StartsWith(s, i, Chars(<<"t", "r", "u", "e">>))
    THEN [ok |-> TRUE, i |-> i + 4, v |-> [t |-> "bool", b |-> TRUE]]
  ELSE IF StartsWith(s, i, Chars(<<"f", "a", "l", "s", "e">>))
    THEN [ok |-> TRUE, i |-> i + 5, v |-> [t |-> "bool", b |-> FALSE]]
  ELSE scan_number(s, i, ext, match_number(s, i))

\* The end of JSONDecoder.decode: only whitespace may follow the value.
decode_end(s, r) ==
  IF ~r.ok THEN [ok |-> FALSE, exc |-> "JSONDecodeError"]
  ELSE IF skip_ws(s, r.i) # Len(s) + 1 THEN [ok |-> FALSE, exc |-> "JSONDecodeError"]
  ELSE [ok |-> TRUE, v |-> r.v]

\* json.loads refuses a str that starts with a byte order mark, then
\* JSONDecoder.decode: leading whitespace, one value, trailing whitespace, the end.
decode(s, ext) ==
  IF At(s, 1) = 65279 THEN [ok |-> FALSE, exc |-> "JSONDecodeError"]
  ELSE CHOOSE res \in {decode_end(s, r) : r \in {scan_once(s, skip_ws(s, 1), ext)}} : TRUE

json_loads(s) == decode(s, TRUE)

(***************************************************************************)
(* The state of test-host.py.                                              *)
(*   stdin, pos         the bytes the peer sends before it closes the      *)
(*                      stream, and how many of them have been read        *)
(*   outbuf, stdout     sys.stdout.buffer: the bytes written and not yet   *)
(*                      flushed, and the bytes delivered to the peer       *)
(*   log                the lines appended to /tmp/pi-chrome-host.log      *)
(*   pc                 the line about to run ("l7" .. "l40", "done")      *)
(*   message_arg, encoded, enc_len, ret                                    *)
(*                      send_message's parameter and local, len(encoded)   *)
(*                      by its base-256 digits, and the line that called   *)
(*   length_bytes, length, payload, message, data, e                       *)
(*                      the read loop's variables; payload is the result   *)
(*                      of sys.stdin.buffer.read(length)                   *)
(*   sent               history: the messages whose frames were written    *)
(* and of host-wrapper.py:                                                 *)
(*   w_pc               the line about to run ("l9", "l15", "exited")      *)
(*   child              "none", "running" or "exited"                      *)
(*   returncode         the exit code of the child, once it has exited     *)
(*   exit_code          the exit code of the wrapper, once it has exited   *)
(***************************************************************************)
VARIABLES stdin, pos, outbuf, stdout, log, pc, message_arg, encoded, enc_len, ret,
          length_bytes, length, payload, message, data, e, sent,
          w_pc, child, returncode, exit_code

ioVars == <<stdin, pos, outbuf, stdout, log>>
sendVars == <<message_arg, encoded, enc_len, ret, sent>>
loopVars == <<length_bytes, length, payload, message, data, e>>
wrapperVars == <<w_pc, child, returncode, exit_code>>
vars == <<stdin, pos, outbuf, stdout, log, pc, message_arg, encoded, enc_len, ret,
          length_bytes, length, payload, message, data, e, sent,
          w_pc, child, returncode, exit_code>>

Min(a, b) == IF a < b THEN a ELSE b

\* {"type": "HOST_READY"}
HOST_READY ==
  PyDict(<<[k |-> Chars(<<"t", "y", "p", "e">>),
            v |-> PyStr(Chars(<<"H", "O", "S", "T", "_", "R", "E", "A", "D", "Y">>))]>>)

dict_get_absent(o, key) == PyNone

\* dict.get(key): the value of the key, None when it is absent.
dict_get(o, key) ==
  IF \E j \in 1..Len(o.d) : o.d[j].k = key
  THEN o.d[CHOOSE j \in 1..Len(o.d) : o.d[j].k = key].v
  ELSE PyNone

data_get_tolerant(v, key) ==
  [ok |-> TRUE, v |-> IF v.t = "dict" THEN dict_get(v, key) ELSE PyNone]

\* data.get(key): only a dict has a get method; on any other value the attribute
\* lookup raises AttributeError.
data_get(v, key) ==
  IF v.t = "dict" THEN [ok |-> TRUE, v |-> dict_get(v, key)]
  ELSE [ok |-> FALSE, exc |-> "AttributeError"]

\* {"id": id, "success": True}
Ack(id) ==
  PyDict(<<[k |-> Chars(<<"i", "d">>), v |-> id],
           [k |-> Chars(<<"s", "u", "c", "c", "e", "s", "s">>), v |-> PyBool(TRUE)]>>)

\* The text a log line starts with.
LogLine(rec) ==
  CASE rec.kind = "starting" -> Chars(<<"P", "y", "t", "h", "o", "n">>)
    [] rec.kind = "sent_ready" -> Chars(<<"S", "e", "n", "t">>)
    [] rec.kind = "Received" -> Chars(<<"R", "e", "c", "e", "i", "v", "e", "d", ":">>)
    [] rec.kind = "Error" -> Chars(<<"E", "r", "r", "o", "r", ":">>)
    [] rec.kind = "exiting" -> Chars(<<"H", "o", "s", "t">>)

write_log_prints(buf, l, rec) == [buf |-> buf \o LogLine(rec) \o <<10>>, log |-> l]

\* with open("/tmp/pi-chrome-host.log", "a") as f: f.write(...): the line goes to
\* the log file and the output buffer is left alone.
write_log(buf, l, rec) == [buf |-> buf, log |-> Append(l, rec)]

flush_skipped(out, buf) == [out |-> out, buf |-> buf]

\* sys.stdout.buffer.flush(): everything buffered is delivered.
flush(out, buf) == [out |-> out \o buf, buf |-> <<>>]

\* sys.stdin.buffer.read(n) at position p: n bytes, fewer when the stream ends.
stdin_read(in, p, n) == SubSeq(in, p + 1, Min(p + n, Len(in)))

is_eof_ignored(lb) == FALSE

is_eof_short(lb) == Len(lb) < 4

\* len(length_bytes) == 0
is_eof(lb) == Len(lb) = 0

after_except_continues == "l25"

after_except_exits == "done"

\* The except clause ends in break: the next line is the one after the loop.
after_except == "l40"

\* Where an exception raised in send_message goes: to the except clause when the
\* call is the one in the try block (line 34), else out of the script.
raise_target == IF ret = "l25" THEN "l36" ELSE "crashed"

Log(rec, next) ==
  LET w == write_log(outbuf, log, rec)
  IN  /\ outbuf' = w.buf
      /\ log' = w.log
      /\ pc' = next
      /\ UNCHANGED <<stdin, pos, stdout, sendVars, loopVars, wrapperVars>>

\* Lines 7-8.
L7 == pc = "l7" /\ Log([kind |-> "starting"], "l17")

\* Line 17: send_message({"type": "HOST_READY"}).
L17 ==
  /\ pc = "l17"
  /\ message_arg' = HOST_READY
  /\ ret' = "l19"
  /\ pc' = "l11"
  /\ UNCHANGED <<ioVars, encoded, enc_len, sent, loopVars, wrapperVars>>

\* Line 11: encoded = json.dumps(message).encode('utf-8').
Send11 ==
  /\ pc = "l11"
  /\ LET b == utf8_encode(json_dumps(message_arg))
     IN  IF b.ok
         THEN /\ encoded' = b.bytes
              /\ enc_len' = Base256(Len(b.bytes))
              /\ pc' = "l12"
              /\ e' = e
         ELSE /\ UNCHANGED <<encoded, enc_len>>
              /\ e' = b.exc
              /\ pc' = raise_target
  /\ UNCHANGED <<ioVars, message_arg, ret, sent, length_bytes, length, payload,
                 message, data, wrapperVars>>

\* Line 12: sys.stdout.buffer.write(struct.pack('I', len(encoded))).
Send12 ==
  /\ pc = "l12"
  /\ LET p == struct_pack_I(enc_len)
     IN  IF p.ok
         THEN /\ outbuf' = outbuf \o p.bytes
              /\ pc' = "l13"
              /\ e' = e
         ELSE /\ outbuf' = outbuf
              /\ e' = p.exc
              /\ pc' = raise_target
  /\ UNCHANGED <<stdin, pos, stdout, log, sendVars, length_bytes, length, payload,
                 message, data, wrapperVars>>

\* Line 13: sys.stdout.buffer.write(encoded).
Send13 ==
  /\ pc = "l13"
  /\ outbuf' = outbuf \o encoded
  /\ sent' = Append(sent, message_arg)
  /\ pc' = "l14"
  /\ UNCHANGED <<stdin, pos, stdout, log, message_arg, encoded, enc_len, ret,
                 loopVars, wrapperVars>>

\* Line 14: sys.stdout.buffer.flush(), and the return to the caller.
Send14 ==
  /\ pc = "l14"
  /\ LET f == flush(stdout, outbuf)
     IN  stdout' = f.out /\ outbuf' = f.buf
  /\ pc' = ret
  /\ UNCHANGED <<stdin, pos, log, sendVars, loopVars, wrapperVars>>

\* Lines 19-20.
L19 == pc = "l19" /\ Log([kind |-> "sent_ready"], "l25")

\* Line 25: length_bytes = sys.stdin.buffer.read(4).
L25 ==
  /\ pc = "l25"
  /\ length_bytes' = stdin_read(stdin, pos, 4)
  /\ pos' = pos + Len(stdin_read(stdin, pos, 4))
  /\ pc' = "l26"
  /\ UNCHANGED <<stdin, outbuf, stdout, log, sendVars, length, payload, message,
                 data, e, wrapperVars>>

\* Lines 26-27: if len(length_bytes) == 0: break.
L26 ==
  /\ pc = "l26"
  /\ pc' = IF is_eof(length_bytes) THEN "l40" ELSE "l28"
  /\ UNCHANGED <<ioVars, sendVars, loopVars, wrapperVars>>

\* Line 28: length = struct.unpack('I', length_bytes)[0].
L28 ==
  /\ pc = "l28"
  /\ LET u == struct_unpack_I(length_bytes)
     IN  IF u.ok
         THEN length' = u.n /\ e' = e /\ pc' = "l29"
         ELSE length' = length /\ e' = u.exc /\ pc' = "l36"
  /\ UNCHANGED <<ioVars, sendVars, length_bytes, payload, message, data, wrapperVars>>

\* Line 29: message = sys.stdin.buffer.read(length).decode('utf-8').
L29 ==
  /\ pc = "l29"
  /\ LET b == stdin_read(stdin, pos, length)
         m == utf8_decode(b)
     IN  /\ payload' = b
         /\ pos' = pos + Len(b)
         /\ IF m.ok
            THEN message' = m.s /\ e' = e /\ pc' = "l30"
            ELSE message' = message /\ e' = m.exc /\ pc' = "l36"
  /\ UNCHANGED <<stdin, outbuf, stdout, log, sendVars, length_bytes, length, data,
                 wrapperVars>>

\* Line 30: data = json.loads(message).
L30 ==
  /\ pc = "l30"
  /\ LET r == json_loads(message)
     IN  IF r.ok
         THEN data' = r.v /\ e' = e /\ pc' = "l31"
         ELSE data' = data /\ e' = r.exc /\ pc' = "l36"
  /\ UNCHANGED <<ioVars, sendVars, length_bytes, length, payload, message, wrapperVars>>

\* The text of f"Received: {data}" can be written to the log file (UTF-8): the
\* format is str(data), which for a str is the string itself, lone surrogates
\* included, and for every other value its repr, where they are escaped.
received_encodable(v) == v.t = "str" => \A i \in 1..Len(v.s) : ~IsSurrogate(v.s[i])

\* Lines 31-32: f.write raises UnicodeEncodeError before anything is written when
\* the text cannot be encoded.
L31 ==
  /\ pc = "l31"
  /\ IF received_encodable(data)
     THEN /\ outbuf' = write_log(outbuf, log, [kind |-> "Received", data |-> data]).buf
          /\ log' = write_log(outbuf, log, [kind |-> "Received", data |-> data]).log
          /\ e' = e
          /\ pc' = "l34"
     ELSE /\ UNCHANGED <<outbuf, log>>
          /\ e' = "UnicodeEncodeError"
          /\ pc' = "l36"
  /\ UNCHANGED <<stdin, pos, stdout, sendVars, length_bytes, length, payload, message,
                 data, wrapperVars>>

\* Line 34: send_message({"id": data.get("id"), "success": True}).
L34 ==
  /\ pc = "l34"
  /\ IF data_get(data, Chars(<<"i", "d">>)).ok
     THEN /\ message_arg' = Ack(data_get(data, Chars(<<"i", "d">>)).v)
          /\ ret' = "l25"
          /\ e' = e
          /\ pc' = "l11"
     ELSE /\ UNCHANGED <<message_arg, ret>>
          /\ e' = data_get(data, Chars(<<"i", "d">>)).exc
          /\ pc' = "l36"
  /\ UNCHANGED <<ioVars, encoded, enc_len, sent, length_bytes, length, payload,
                 message, data, wrapperVars>>

\* Lines 35-38: except Exception as e: the log line, then break.
L36 == pc = "l36" /\ Log([kind |-> "Error", e |-> e], after_except)

\* Lines 40-41.
L40 == pc = "l40" /\ Log([kind |-> "exiting"], "done")

(***************************************************************************)
(* The inputs of the host: the peer sends at most MaxFrames chunks and     *)
(* closes the stream.  A chunk is a well-formed frame, a frame cut short,  *)
(* a frame with a payload that is not JSON, or a piece of a prefix.        *)
(***************************************************************************)
MaxFrames == 2

\* The 4-byte length the peer writes, in the byte order struct.unpack reads.
Prefix(n) == <<n % 256, (n \div 256) % 256, (n \div 65536) % 256, n \div 16777216>>

\* The frame a peer builds for a payload: the 4-byte length, then the payload.
Frame(p) == Prefix(Len(p)) \o p

\* A prefix that declares n bytes, followed by the bytes p.
Declared(n, p) == Prefix(n) \o p

IdOne == Chars(<<"{", "\"", "i", "d", "\"", ":", " ", "1", "}">>)
Empty == Chars(<<"{", "}">>)
\* {"id": "e-acute"}, the letter in UTF-8
IdAccent == Chars(<<"{", "\"", "i", "d", "\"", ":", " ", "\"">>) \o <<195, 169>>
              \o Chars(<<"\"", "}">>)
NoId == Chars(<<"{", "\"", "a", "\"", ":", " ", "[", "]", "}">>)
NotObject == Chars(<<"[", "1", "]">>)
IdNaN == Chars(<<"{", "\"", "i", "d", "\"", ":", " ", "N", "a", "N", "}">>)
Unclosed == Chars(<<"{", "\"", "i", "d", "\"">>)
NotUtf8 == <<255>>

Chunks ==
  << Frame(IdOne), Frame(Empty), Frame(IdAccent), Frame(NoId), Frame(NotObject),
     Frame(IdNaN), Frame(Unclosed), Frame(NotUtf8), Frame(<<>>),
     Declared(10, Empty), Declared(9, Unclosed), <<2, 0>> >>

RECURSIVE Concat(_, _)
Concat(ix, i) == IF i > Len(ix) THEN <<>> ELSE Chunks[ix[i]] \o Concat(ix, i + 1)

Inputs ==
  {Concat(ix, 1) : ix \in UNION {[1..k -> 1..Len(Chunks)] : k \in 0..MaxFrames}}

HostIdle ==
  /\ pos = 0 /\ outbuf = <<>> /\ stdout = <<>> /\ log = <<>>
  /\ message_arg = PyNone /\ encoded = <<>> /\ enc_len = <<0>> /\ sent = <<>>
  /\ length_bytes = <<>> /\ length = 0 /\ payload = <<>> /\ message = <<>>
  /\ data = PyNone /\ e = ""

WrapperIdle == w_pc = "idle" /\ child = "none" /\ returncode = 0 /\ exit_code = 0

Init ==
  /\ stdin \in Inputs
  /\ pc = "l7"
  /\ ret = "l19"
  /\ HostIdle
  /\ WrapperIdle

Next ==
  \/ L7 \/ L17 \/ Send11 \/ Send12 \/ Send13 \/ Send14 \/ L19
  \/ L25 \/ L26 \/ L28 \/ L29 \/ L30 \/ L31 \/ L34 \/ L36 \/ L40

Spec == Init /\ [][Next]_vars

\* The interpreter keeps running the script: every line that can run does run (a
\* read returns, since the peer has sent all its bytes and closed the stream).
\* The inputs are made of one chunk for each way an iteration can end: a frame
\* that is acknowledged, one for each exception of lines 28-34, a frame cut
\* short and a piece of a prefix.
LiveChunks ==
  {i \in 1..Len(Chunks) :
     Chunks[i] \in {Frame(IdOne), Frame(NotObject), Frame(Unclosed), Frame(NotUtf8),
                    Declared(10, Empty), <<2, 0>>}}

LiveInputs == {Concat(ix, 1) : ix \in UNION {[1..k -> LiveChunks] : k \in 0..MaxFrames}}

InitLive ==
  /\ stdin \in LiveInputs
  /\ pc = "l7"
  /\ ret = "l19"
  /\ HostIdle
  /\ WrapperIdle

SpecLive == InitLive /\ [][Next]_vars /\ WF_vars(Next)

(***************************************************************************)
(* A frame whose payload is a JSON value that is not an object: an array,  *)
(* a string, a number, a boolean or null.  The peer sends it alone or      *)
(* after a frame that is acknowledged, and sends nothing, one frame or two *)
(* frames after it.                                                        *)
(***************************************************************************)
\* "a", the e-acute in UTF-8 between quotes, and the escape \ud800 of a lone
\* surrogate between quotes
StrA == Chars(<<"\"", "a", "\"">>)
StrAccent == Chars(<<"\"">>) \o <<195, 169>> \o Chars(<<"\"">>)
StrSurrogate == Chars(<<"\"", "\\", "u", "d", "8", "0", "0", "\"">>)

NonObjectPayloads ==
  {NotObject, Chars(<<"[", "]">>), Chars(<<"[", "{", "}", "]">>),
   StrA, StrAccent, StrSurrogate, Chars(<<"\"", "\"">>),
   Chars(<<"4", "2">>), Chars(<<"-", "7">>), Chars(<<"1", ".", "5">>),
   Chars(<<"t", "r", "u", "e">>), Chars(<<"f", "a", "l", "s", "e">>),
   Chars(<<"n", "u", "l", "l">>), Chars(<<" ", "0", " ">>)}

NonObjectInputs ==
  {head \o Frame(p) \o tail :
     head \in {<<>>, Frame(IdOne)},
     p \in NonObjectPayloads,
     tail \in {<<>>, Frame(IdOne), Frame(Empty) \o Frame(IdOne)}}

InitNonObject ==
  /\ stdin \in NonObjectInputs
  /\ pc = "l7"
  /\ ret = "l19"
  /\ HostIdle
  /\ WrapperIdle

SpecNonObject == InitNonObject /\ [][Next]_vars

(***************************************************************************)
(* A stream that closes inside a length prefix: after no frame, one frame  *)
(* or two frames that are acknowledged, the peer sends 0, 1, 2 or 3 more   *)
(* bytes and closes the stream.                                            *)
(***************************************************************************)
PrefixBytes == {0, 2, 255}

PartialPrefixes == UNION {[1..k -> PrefixBytes] : k \in 0..3}

PrefixInputs ==
  {head \o tail :
     head \in {<<>>, Frame(IdOne), Frame(IdOne) \o Frame(Empty)},
     tail \in PartialPrefixes}

InitPrefix ==
  /\ stdin \in PrefixInputs
  /\ pc = "l7"
  /\ ret = "l19"
  /\ HostIdle
  /\ WrapperIdle

SpecPrefix == InitPrefix /\ [][Next]_vars

(***************************************************************************)
(* The round trip of one value: send_message writes the frame of a value   *)
(* (lines 11-14), the frame is handed to the read loop as its input, and   *)
(* the loop decodes it (lines 25-30).  The values are the JSON values with *)
(* strings of at most MaxStrLen characters and containers of at most       *)
(* MaxItems items; numbers are integers.                                   *)
(***************************************************************************)
MaxStrLen == 2
MaxItems == 2

\* a, the quote, the backslash, the line feed, e-acute and an emoji beyond U+FFFF
StrAlphabet == {Ord["a"], Ord["\""], Ord["\\"], 10, 233, 128512}

Strs(n) == UNION {[1..k -> StrAlphabet] : k \in 0..n}

ScalarValues ==
  {PyNone, PyBool(TRUE), PyBool(FALSE)}
    \cup {PyInt(i) : i \in {0, 42, 0 - 7}}
    \cup {PyStr(s) : s \in Strs(MaxStrLen)}

ItemValues ==
  {PyNone, PyBool(TRUE), PyInt(0 - 7), PyStr(<<233, Ord["\""]>>), PyList(<<PyInt(0)>>),
   PyDict(<<[k |-> <<Ord["a"]>>, v |-> PyBool(FALSE)]>>)}

KeyStrs == {<<>>, <<Ord["a"]>>, <<Ord["\""], 233>>}

ListValues == {PyList(l) : l \in UNION {[1..k -> ItemValues] : k \in 0..MaxItems}}

DictValues ==
  {PyDict(d) :
     d \in {p \in UNION {[1..k -> [k : KeyStrs, v : ItemValues]] : k \in 0..MaxItems} :
              \A i, j \in 1..Len(p) : i # j => p[i].k # p[j].k}}

RoundTripValues ==
  ScalarValues \cup ListValues \cup DictValues \cup {HOST_READY, Ack(PyInt(42))}

\* What send_message wrote is what the read loop is given to read.
Loopback ==
  /\ pc = "loopback"
  /\ stdin' = stdout
  /\ pos' = 0
  /\ pc' = "l25"
  /\ UNCHANGED <<outbuf, stdout, log, sendVars, loopVars, wrapperVars>>

InitRoundTrip ==
  /\ message_arg \in RoundTripValues
  /\ stdin = <<>>
  /\ pc = "l11"
  /\ ret = "loopback"
  /\ pos = 0 /\ outbuf = <<>> /\ stdout = <<>> /\ log = <<>>
  /\ encoded = <<>> /\ enc_len = <<0>> /\ sent = <<>>
  /\ length_bytes = <<>> /\ length = 0 /\ payload = <<>> /\ message = <<>>
  /\ data = PyNone /\ e = ""
  /\ WrapperIdle

NextRoundTrip ==
  \/ Send11 \/ Send12 \/ Send13 \/ Send14 \/ Loopback
  \/ L25 \/ L26 \/ L28 \/ L29 \/ L30

SpecRoundTrip == InitRoundTrip /\ [][NextRoundTrip]_vars

(***************************************************************************)
(* Line 12 for payloads of any size.  struct.pack reads len(encoded) and   *)
(* nothing else of the payload, so a payload is given by its length alone: *)
(* a number of MaxLenDigits base-256 digits, which reaches past 2^32.  The *)
(* call is the one of line 34, after HOST_READY has been sent, and the     *)
(* shortest acknowledgement has 26 bytes.  The request whose id makes the  *)
(* acknowledgement that long is not spelled out.                           *)
(***************************************************************************)
MaxLenDigits == 5

DigitChoices == {0, 1, 26, 128, 255}

AckLengths ==
  {d \in [1..MaxLenDigits -> DigitChoices] : d[1] >= 26 \/ \E i \in 2..MaxLenDigits : d[i] # 0}

InitPack ==
  /\ enc_len \in AckLengths
  /\ message_arg = Ack(PyNone)
  /\ stdin = <<>>
  /\ pc = "l12"
  /\ ret = "l25"
  /\ pos = 0
  /\ outbuf = <<>>
  /\ stdout = Frame(utf8_encode(json_dumps(HOST_READY)).bytes)
  /\ log = <<[kind |-> "starting"], [kind |-> "sent_ready"]>>
  /\ encoded = <<>> /\ sent = <<HOST_READY>>
  /\ length_bytes = <<>> /\ length = 0 /\ payload = <<>> /\ message = <<>>
  /\ data = PyNone /\ e = ""
  /\ WrapperIdle

NextPack == Send12 \/ L36 \/ L40

SpecPack == InitPack /\ [][NextPack]_vars

(***************************************************************************)
(* host-wrapper.py: spawn the host with the wrapper's own streams, wait    *)
(* for it, and run off the end of the script.                              *)
(***************************************************************************)
MaxReturnCode == 127

\* Lines 9-14: subprocess.Popen([...], stdin=sys.stdin, stdout=sys.stdout, ...).
Popen ==
  /\ w_pc = "l9"
  /\ child' = "running"
  /\ w_pc' = "l15"
  /\ UNCHANGED <<returncode, exit_code, ioVars, pc, sendVars, loopVars>>

\* The child exits with a code of its own choosing.
ChildExit ==
  /\ child = "running"
  /\ \E c \in 0..MaxReturnCode : returncode' = c
  /\ child' = "exited"
  /\ UNCHANGED <<w_pc, exit_code, ioVars, pc, sendVars, loopVars>>

\* Line 15: proc.wait() blocks until the child has exited; its value is dropped
\* and the script ends there, so the interpreter exits with code 0.
Wait ==
  /\ w_pc = "l15"
  /\ child = "exited"
  /\ exit_code' = 0
  /\ w_pc' = "exited"
  /\ UNCHANGED <<child, returncode, ioVars, pc, sendVars, loopVars>>

InitWrapper ==
  /\ w_pc = "l9" /\ child = "none" /\ returncode = 0 /\ exit_code = 0
  /\ stdin = <<>>
  /\ pc = "idle"
  /\ ret = "l19"
  /\ HostIdle

NextWrapper == Popen \/ ChildExit \/ Wait

SpecWrapper == InitWrapper /\ [][NextWrapper]_vars

(***************************************************************************)
(* Reading a byte stream as the peer does: a 4-byte length, then that many *)
(* bytes, again and again.  frames are the whole frames read, rest is what *)
(* follows the last whole frame.  A prefix whose last byte is 128 or more   *)
(* declares 2^31 bytes or more, which is more than any stream here holds.  *)
(***************************************************************************)
RECURSIVE ReadFrames(_, _)
ReadFrames(b, acc) ==
  IF Len(b) < 4 THEN [frames |-> acc, rest |-> b]
  ELSE IF b[4] >= 128 THEN [frames |-> acc, rest |-> b]
  ELSE IF Len(b) < 4 + struct_unpack_I(Take(b, 4)).n THEN [frames |-> acc, rest |-> b]
  ELSE ReadFrames(Drop(b, 4 + struct_unpack_I(Take(b, 4)).n),
                  Append(acc, [n |-> struct_unpack_I(Take(b, 4)).n,
                               payload |-> SubSeq(b, 5, 4 + struct_unpack_I(Take(b, 4)).n)]))

\* Everything send_message has written: delivered or still buffered.
Written == stdout \o outbuf

\* The UTF-8 bytes of the JSON text of a message.
PayloadOf(m) == utf8_encode(json_dumps(m)).bytes

\* The host is back at the head of the loop having acknowledged the frame it
\* read last (length and payload are that frame's).
Acknowledged == pc = "l25" /\ ret = "l25"

\* A payload that is UTF-8 and, decoded, a JSON text.
IsJson(b) == utf8_decode(b).ok /\ decode(utf8_decode(b).s, FALSE).ok

HasRecord(kind) == \E i \in 1..Len(log) : log[i].kind = kind

(***************************************************************************)
(* C1. Round trip: for every JSON value v, decoding the frame that         *)
(* send_message writes for v (read 4 bytes, unpack, read that many bytes,  *)
(* UTF-8 decode, JSON parse) raises nothing and yields a value equal to v. *)
(***************************************************************************)
C1_RoundTrip ==
  /\ pc \notin {"l36", "l40", "crashed"}
  /\ pc \in {"l29", "l30", "l31"} => length = Len(PayloadOf(sent[1]))
  /\ pc = "l31" => data = sent[1]

C1_Witness ==
  /\ pc = "l31"
  /\ sent[1] = Ack(PyInt(42))
  /\ dict_get(data, Chars(<<"i", "d">>)) = PyInt(42)
  /\ dict_get(data, Chars(<<"s", "u", "c", "c", "e", "s", "s">>)) = PyBool(TRUE)

(***************************************************************************)
(* C2. Framing: what send_message has written is, frame after frame, a     *)
(* 4-byte length followed at once by the payload, the length being the     *)
(* number of bytes of the UTF-8 JSON text of the message; this holds for   *)
(* HOST_READY and for every acknowledgement.  Between lines 12 and 13 the  *)
(* last frame has its prefix only.                                         *)
(***************************************************************************)
C2_FramingInvariant ==
  LET r == ReadFrames(Written, <<>>)
  IN  /\ Len(r.frames) = Len(sent)
      /\ \A i \in 1..Len(sent) :
           /\ r.frames[i].n = Len(PayloadOf(sent[i]))
           /\ r.frames[i].payload = PayloadOf(sent[i])
      /\ Len(sent) >= 1 => sent[1] = HOST_READY
      /\ IF pc = "l13"
         THEN Len(r.rest) = 4 /\ struct_unpack_I(r.rest).n = Len(PayloadOf(message_arg))
         ELSE r.rest = <<>>

C2_Witness ==
  /\ pc = "done"
  /\ Len(sent) = 3
  /\ sent[2] = Ack(PyStr(<<233>>))
  /\ stdout = Frame(PayloadOf(sent[1])) \o Frame(PayloadOf(sent[2])) \o Frame(PayloadOf(sent[3]))

(***************************************************************************)
(* C3. A frame whose stream closes before the declared number of payload   *)
(* bytes has arrived is never acknowledged, whatever the bytes that did    *)
(* arrive: a frame is acknowledged only when its whole payload was read.   *)
(***************************************************************************)
C3_TruncatedFrameFails == Acknowledged => Len(payload) = length

(***************************************************************************)
(* C4. The exit code of the wrapper equals the exit code of the child.     *)
(***************************************************************************)
C4_ExitCodeForwarded == w_pc = "exited" => exit_code = returncode

(***************************************************************************)
(* C5. End of stream: when the stream is closed with no byte left at a     *)
(* frame boundary, the read of the prefix returns nothing and consumes     *)
(* nothing, and the loop ends as a normal shutdown: the next line is 40,   *)
(* nothing is written to the output, the log gets no line until            *)
(* "Host exiting", and it holds no "Error" line.                           *)
(***************************************************************************)
C5_EndOfStream ==
  /\ []((pc \in {"l26", "l40", "done"} /\ length_bytes = <<>>)
          => (pos = Len(stdin) /\ ~HasRecord("Error")))
  /\ [][/\ (pc = "l25" /\ pos = Len(stdin))
             => (pc' = "l26" /\ length_bytes' = <<>>
                   /\ UNCHANGED <<pos, stdout, outbuf, log, sent>>)
        /\ (pc = "l26" /\ length_bytes = <<>>)
             => (pc' = "l40" /\ UNCHANGED <<pos, stdout, outbuf, log, sent>>)
        /\ (pc = "l40" /\ length_bytes = <<>>)
             => (pc' = "done" /\ log' = Append(log, [kind |-> "exiting"])
                   /\ UNCHANGED <<pos, stdout, outbuf, sent>>)]_vars

C5_Witness ==
  /\ pc = "done"
  /\ stdin = <<>>
  /\ pos = 0
  /\ length_bytes = <<>>
  /\ log = <<[kind |-> "starting"], [kind |-> "sent_ready"], [kind |-> "exiting"]>>
  /\ stdout = Frame(PayloadOf(HOST_READY))

(***************************************************************************)
(* C6. A frame whose payload is not valid UTF-8 or not a JSON text is      *)
(* never acknowledged: a frame is acknowledged only when its payload is    *)
(* UTF-8 JSON.                                                             *)
(***************************************************************************)
C6_MalformedPayloadFails == Acknowledged => IsJson(payload)

(***************************************************************************)
(* C7. In every state, after a failure too, the bytes written to the       *)
(* protocol stream are whole frames, one per message sent, each payload a  *)
(* JSON object (and the prefix of the frame being written, between lines   *)
(* 12 and 13): no byte of a log line is among them, and every log line     *)
(* written so far is in the log.                                           *)
(***************************************************************************)
C7_OnlyFramesOnProtocolStream ==
  LET r == ReadFrames(Written, <<>>)
  IN  /\ Len(r.rest) = IF pc = "l13" THEN 4 ELSE 0
      /\ Len(r.frames) = Len(sent)
      /\ \A i \in 1..Len(r.frames) :
           /\ utf8_decode(r.frames[i].payload).ok
           /\ json_loads(utf8_decode(r.frames[i].payload).s).ok
           /\ json_loads(utf8_decode(r.frames[i].payload).s).v.t = "dict"
      /\ pc \notin {"l7"} => HasRecord("starting")
      /\ pc \in {"l40", "done"} /\ e # "" => HasRecord("Error")
      /\ pc = "done" => HasRecord("exiting")

C7_Witness ==
  /\ pc = "done"
  /\ HasRecord("Error")
  /\ HasRecord("Received")
  /\ Len(sent) = 2
  /\ stdout = Frame(PayloadOf(sent[1])) \o Frame(PayloadOf(sent[2]))

(***************************************************************************)
(* C8. Failures are terminal: once the loop has ended, on end of stream or *)
(* on the first exception, no further byte is read and no further byte is  *)
(* written to the output, and the loop is not entered again, even when     *)
(* well-formed frames are left on the input.                               *)
(***************************************************************************)
C8_FailuresTerminal ==
  [][(pc \in {"l36", "l40", "done"})
       => (pc' \in {"l40", "done"} /\ UNCHANGED <<pos, stdout, outbuf, sent>>)]_vars

C8_Witness ==
  /\ pc = "done"
  /\ HasRecord("Error")
  /\ Drop(stdin, pos) = Frame(IdOne)
  /\ Len(sent) = 1

(***************************************************************************)
(* C9. Flush: whenever the host is about to block reading its input (the   *)
(* prefix at line 25, the payload at line 29), every frame it has sent so  *)
(* far has been delivered whole and no byte is left in the buffer.         *)
(***************************************************************************)
C9_FlushedBeforeRead ==
  pc \in {"l25", "l29"}
    => /\ outbuf = <<>>
       /\ ReadFrames(stdout, <<>>).rest = <<>>
       /\ Len(ReadFrames(stdout, <<>>).frames) = Len(sent)
       /\ Len(sent) >= 1

C9_Witness ==
  /\ pc = "l25"
  /\ Len(sent) = 2
  /\ pos < Len(stdin)
  /\ outbuf = <<>>
  /\ stdout = Frame(PayloadOf(HOST_READY)) \o Frame(PayloadOf(sent[2]))

(***************************************************************************)
(* C10. Size.  send_message makes no size check of its own; what decides   *)
(* is struct.pack('I', len(encoded)), which takes a length below 2^32 (the *)
(* prefix is then the four low base-256 digits of the length) and raises   *)
(* struct.error for a length of 2^32 or more.                              *)
(***************************************************************************)
FitsPrefix(d) == \A i \in 1..Len(d) : i > 4 => d[i] = 0

\* C10 as claimed: whatever the byte length of the payload, line 12 raises
\* nothing and send_message goes on to write the payload.
C10_NoSizeLimit == pc \in {"l12", "l13"}

\* C10 as amended: line 12 writes the prefix exactly when the length is below
\* 2^32; otherwise struct.error is raised, nothing of the frame is written, and
\* the except clause logs the error and ends the loop.
C10_SizeLimit ==
  pc # "l12"
    => IF FitsPrefix(enc_len)
       THEN /\ pc = "l13"
            /\ outbuf = Take(enc_len, 4)
            /\ e = ""
       ELSE /\ pc \in {"l36", "l40", "done"}
            /\ e = "struct.error"
            /\ outbuf = <<>>
            /\ stdout = Frame(PayloadOf(HOST_READY))
            /\ sent = <<HOST_READY>>
            /\ pc \in {"l40", "done"} => log[3] = [kind |-> "Error", e |-> "struct.error"]

C10_Witness ==
  /\ pc = "done"
  /\ enc_len = [i \in 1..MaxLenDigits |-> IF i = 5 THEN 1 ELSE 0]
  /\ e = "struct.error"
  /\ HasRecord("Error")
  /\ outbuf = <<>>

(***************************************************************************)
(* C11. Termination: whatever finite input the peer sends before closing   *)
(* the stream, the read loop ends after finitely many iterations, by end   *)
(* of stream (an empty read at the end of the input) or by an exception    *)
(* that the except clause has logged, and the host then writes "Host       *)
(* exiting" as the last line of the log and runs nothing more.             *)
(***************************************************************************)
C11_Terminates ==
  <>[](/\ pc = "done"
       /\ log[Len(log)] = [kind |-> "exiting"]
       /\ IF e = ""
          THEN length_bytes = <<>> /\ pos = Len(stdin) /\ ~HasRecord("Error")
          ELSE log[Len(log) - 1] = [kind |-> "Error", e |-> e])

C11_Witness ==
  /\ pc = "done"
  /\ log[Len(log)] = [kind |-> "exiting"]
  /\ log[Len(log) - 1] = [kind |-> "Error", e |-> "JSONDecodeError"]
  /\ Len(sent) = 2
  /\ pos = Len(stdin)

(***************************************************************************)
(* C12. Request/acknowledge ordering.  The input read as the peer wrote    *)
(* it: InputFrames are its whole frames, Request(i) the value of frame i,  *)
(* Offset(fr, k) the number of bytes of the first k frames.                *)
(***************************************************************************)
InputFrames == ReadFrames(stdin, <<>>)

IsObject(b) == IsJson(b) /\ decode(utf8_decode(b).s, FALSE).v.t = "dict"

\* The input is a concatenation of well-formed frames with JSON-object payloads.
WellFormedInput ==
  /\ InputFrames.rest = <<>>
  /\ \A i \in 1..Len(InputFrames.frames) : IsObject(InputFrames.frames[i].payload)

Request(i) == decode(utf8_decode(InputFrames.frames[i].payload).s, FALSE).v

\* {"id": <the id of the request, null when it has none>, "success": true}
AckFor(req) ==
  [t |-> "dict",
   d |-> <<[k |-> Chars(<<"i", "d">>),
            v |-> IF \E j \in 1..Len(req.d) : req.d[j].k = Chars(<<"i", "d">>)
                  THEN req.d[CHOOSE j \in 1..Len(req.d) : req.d[j].k = Chars(<<"i", "d">>)].v
                  ELSE [t |-> "null"]],
           [k |-> Chars(<<"s", "u", "c", "c", "e", "s", "s">>),
            v |-> [t |-> "bool", b |-> TRUE]]>>]

RECURSIVE Offset(_, _)
Offset(fr, k) == IF k = 0 THEN 0 ELSE Offset(fr, k - 1) + 4 + fr[k].n

\* C12: the HOST_READY frame is the first thing on the output and is there
\* before any input byte is read; and for an input of k well-formed frames with
\* JSON-object payloads nothing fails, each iteration reads exactly the next
\* frame, acknowledgement i is {"id": the id of request i or null, "success":
\* true}, the acknowledgements are on the output in input order, one per frame,
\* and acknowledgement i is delivered before any byte of frame i + 1 is read.
C12_Ordering ==
  /\ Len(stdout) > 0 =>
        Take(stdout, 4 + Len(PayloadOf(HOST_READY))) = Frame(PayloadOf(HOST_READY))
  /\ pos > 0 => Len(stdout) > 0
  /\ WellFormedInput =>
        LET fr == InputFrames.frames
            out == ReadFrames(stdout, <<>>).frames
        IN  /\ pc \notin {"l36", "crashed"}
            /\ e = ""
            /\ Len(sent) <= Len(fr) + 1
            /\ \A i \in 1..(Len(sent) - 1) : sent[i + 1] = AckFor(Request(i))
            /\ \A i \in 1..(Len(out) - 1) : out[i + 1].payload = PayloadOf(AckFor(Request(i)))
            /\ \A i \in 1..Len(fr) : pos > Offset(fr, i) => Len(out) >= i + 1
            /\ pc = "l25" => pos = Offset(fr, Len(sent) - 1)
            /\ pc \in {"l30", "l31", "l34"} =>
                  /\ pos = Offset(fr, Len(sent))
                  /\ payload = fr[Len(sent)].payload
            /\ pc = "done" => Len(out) = Len(fr) + 1 /\ pos = Len(stdin)

C12_Witness ==
  /\ pc = "done"
  /\ stdin = Frame(IdOne) \o Frame(NoId)
  /\ sent = <<HOST_READY, AckFor(Request(1)), AckFor(Request(2))>>
  /\ AckFor(Request(1)).d[1].v = [t |-> "int", i |-> 1]
  /\ AckFor(Request(2)).d[1].v = [t |-> "null"]
  /\ stdout = Frame(PayloadOf(HOST_READY)) \o Frame(PayloadOf(AckFor(Request(1))))
                 \o Frame(PayloadOf(AckFor(Request(2))))

(***************************************************************************)
(* C13. A whole frame whose payload is a JSON value other than an object.  *)
(* FirstNonObject is the place of the first such frame of the input, every *)
(* frame before it holding an object.                                      *)
(***************************************************************************)
IsNonObject(b) == IsJson(b) /\ decode(utf8_decode(b).s, FALSE).v.t # "dict"

HasNonObject ==
  \E j \in 1..Len(InputFrames.frames) :
     /\ IsNonObject(InputFrames.frames[j].payload)
     /\ \A k \in 1..(j - 1) : IsObject(InputFrames.frames[k].payload)

FirstNonObject ==
  CHOOSE j \in 1..Len(InputFrames.frames) :
     /\ IsNonObject(InputFrames.frames[j].payload)
     /\ \A k \in 1..(j - 1) : IsObject(InputFrames.frames[k].payload)

ReceivedCount == Cardinality({i \in 1..Len(log) : log[i].kind = "Received"})

\* What C13 and its amendment share: frame j is never acknowledged and no frame
\* after it is read, and when the script has ended frame j was read whole and
\* decoded, the loop ended through the except clause, and the log ends with
\* the Error line and "Host exiting".
NonObjectNeverAcknowledged(j) ==
  /\ Len(sent) <= j
  /\ pos <= Offset(InputFrames.frames, j)
  /\ pc = "done" =>
        /\ Len(sent) = j
        /\ Len(ReadFrames(stdout, <<>>).frames) = j
        /\ pos = Offset(InputFrames.frames, j)
        /\ data = Request(j)
        /\ e # ""
        /\ log[Len(log) - 1] = [kind |-> "Error", e |-> e]
        /\ log[Len(log)] = [kind |-> "exiting"]

\* C13 as claimed: the value is decoded and logged as received, building the
\* acknowledgement fails, no acknowledgement is written, the loop ends as on a
\* failure and the later frames are left unread.
C13_LoggedNotAcknowledged ==
  HasNonObject =>
    /\ NonObjectNeverAcknowledged(FirstNonObject)
    /\ pc = "done" =>
          /\ e = "AttributeError"
          /\ ReceivedCount = FirstNonObject
          /\ log[Len(log) - 2] = [kind |-> "Received", data |-> Request(FirstNonObject)]

\* C13 as amended: the value is decoded and never acknowledged, the loop ends
\* through the except clause and the later frames are left unread; the value
\* is logged as received and the exception is the AttributeError of data.get,
\* except for a string that holds a lone surrogate, where writing the
\* "Received" line raises UnicodeEncodeError and no such line is logged.
C13_NotAcknowledged ==
  HasNonObject =>
    /\ NonObjectNeverAcknowledged(FirstNonObject)
    /\ pc = "done" =>
          IF Request(FirstNonObject).t = "str"
               /\ \E i \in 1..Len(Request(FirstNonObject).s) :
                     IsSurrogate(Request(FirstNonObject).s[i])
          THEN /\ e = "UnicodeEncodeError"
               /\ ReceivedCount = FirstNonObject - 1
          ELSE /\ e = "AttributeError"
               /\ ReceivedCount = FirstNonObject
               /\ log[Len(log) - 2]
                    = [kind |-> "Received", data |-> Request(FirstNonObject)]

C13_Witness ==
  /\ pc = "done"
  /\ stdin = Frame(IdOne) \o Frame(StrA) \o Frame(IdOne)
  /\ FirstNonObject = 2
  /\ data = [t |-> "str", s |-> <<Ord["a"]>>]
  /\ e = "AttributeError"
  /\ Len(sent) = 2
  /\ pos < Len(stdin)

(***************************************************************************)
(* C14. A partial prefix is a read at line 25 that returned 1, 2 or 3      *)
(* bytes, which happens only when the stream closes there.  It is not      *)
(* taken for the end of the stream: line 26 goes on to line 28, where      *)
(* struct.unpack raises; no payload is read and nothing is written to the  *)
(* output, the except clause logs an Error line and the loop ends.  The    *)
(* loop leaves by the break of line 27 only after a read of zero bytes,    *)
(* and then no Error line is logged.                                       *)
(***************************************************************************)
PartialPrefix == Len(length_bytes) \in 1..3

C14_PartialPrefixFails ==
  /\ []((pc \in {"l26", "l28", "l36", "l40", "done"} /\ PartialPrefix)
          => /\ pos = Len(stdin)
             /\ pc \in {"l36", "l40", "done"} => e = "struct.error"
             /\ pc \in {"l40", "done"}
                  => \E i \in 1..Len(log) : log[i] = [kind |-> "Error", e |-> "struct.error"])
  /\ []((pc \in {"l40", "done"} /\ e = "") => (length_bytes = <<>> /\ ~HasRecord("Error")))
  /\ [][/\ (pc = "l26" /\ PartialPrefix) => pc' = "l28"
        /\ (pc = "l26" /\ pc' = "l40") => length_bytes = <<>>
        /\ (pc = "l28" /\ PartialPrefix)
             => /\ pc' = "l36"
                /\ e' = "struct.error"
                /\ UNCHANGED <<pos, length, payload, message, data, stdout, outbuf,
                               sent, log>>
        /\ (pc = "l36" /\ PartialPrefix)
             => /\ pc' = "l40"
                /\ log' = Append(log, [kind |-> "Error", e |-> "struct.error"])
                /\ UNCHANGED <<pos, payload, stdout, outbuf, sent>>
        /\ (pc = "l40" /\ PartialPrefix)
             => (pc' = "done" /\ UNCHANGED <<pos, payload, stdout, outbuf, sent>>)]_vars

C14_Witness ==
  /\ pc = "done"
  /\ length_bytes = <<2>>
  /\ stdin = Frame(IdOne) \o <<2>>
  /\ e = "struct.error"
  /\ payload = IdOne
  /\ Len(sent) = 2
  /\ log[Len(log) - 1] = [kind |-> "Error", e |-> "struct.error"]
  /\ log[Len(log)] = [kind |-> "exiting"]

====
